---- MODULE Spec2Model ----
(***************************************************************************)
(* Model of etc/release/utils_requirements.py: the requirement-line        *)
(* parser, the setup.cfg section extractor and the two manifest writers.   *)
(*                                                                         *)
(* A Python str is a sequence of one-character strings, so that strip,     *)
(* lower, partition, splitlines, join and sorted are computed character by *)
(* character.  None is the value NoneVal.  An exception is a record        *)
(* [type, arg]; NoExc means that nothing was raised.                       *)
(***************************************************************************)
EXTENDS Integers, Sequences, FiniteSets, TLC

\* ------------------------------------------------------------------ bounds
MaxLineLen == 5      \* longest single line enumerated character by character
MaxSeqLines == 3     \* longest sequence of lines given to the parser
MaxMainLines == 1    \* most lines of the baseline manifest
MaxSnapLines == 3    \* most lines printed by the freeze subprocess
MaxCfgLines == 2     \* most lines of an install_requires text

\* -------------------------------------------------------------- characters
Chars == {"a", "A", "1", "=", " ", "#"}

Whitespace == {" ", "\t", "\n", "\r"}

Ord(c) ==
    CASE c = "\t" -> 9
      [] c = "\n" -> 10
      [] c = "\r" -> 13
      [] c = " " -> 32
      [] c = "#" -> 35
      [] c = "1" -> 49
      [] c = "2" -> 50
      [] c = "3" -> 51
      [] c = "=" -> 61
      [] c = ">" -> 62
      [] c = "A" -> 65
      [] c = "B" -> 66
      [] c = "T" -> 84
      [] c = "a" -> 97
      [] c = "b" -> 98
      [] c = "c" -> 99
      [] c = "t" -> 116
      [] OTHER -> 127

LowerChar(c) ==
    CASE c = "A" -> "a"
      [] c = "B" -> "b"
      [] c = "T" -> "t"
      [] OTHER -> c

NoneVal == <<"None">>

NoExc == [type |-> "NoExc", arg |-> <<>>]

\* ------------------------------------------------------------ str methods
RECURSIVE lower(_)
lower(s) ==
    IF s = <<>> THEN <<>> ELSE <<LowerChar(Head(s))>> \o lower(Tail(s))

RECURSIVE lstrip(_)
lstrip(s) ==
    IF s = <<>> THEN <<>>
    ELSE IF Head(s) \in Whitespace THEN lstrip(Tail(s)) ELSE s

RECURSIVE rstrip(_)
rstrip(s) ==
    IF s = <<>> THEN <<>>
    ELSE IF s[Len(s)] \in Whitespace THEN rstrip(SubSeq(s, 1, Len(s) - 1)) ELSE s

strip(s) == rstrip(lstrip(s))

startswith(s, c) == s # <<>> /\ Head(s) = c

\* index of the first "==" at or after position i, 0 when there is none
RECURSIVE find_eqeq(_, _)
find_eqeq(s, i) ==
    IF i + 1 > Len(s) THEN 0
    ELSE IF s[i] = "=" /\ s[i + 1] = "=" THEN i
    ELSE find_eqeq(s, i + 1)

\* index of the last "==" at or before position i, 0 when there is none
RECURSIVE rfind_eqeq(_, _)
rfind_eqeq(s, i) ==
    IF i < 1 THEN 0
    ELSE IF s[i] = "=" /\ s[i + 1] = "=" THEN i
    ELSE rfind_eqeq(s, i - 1)

contains_eqeq(s) == find_eqeq(s, 1) # 0

\* str.rpartition('=='): what a split on the last separator would give
rpartition(s) ==
    LET k == rfind_eqeq(s, Len(s) - 1) IN
    IF k = 0 THEN <<<<>>, <<>>, s>>
    ELSE <<SubSeq(s, 1, k - 1), <<"=", "=">>, SubSeq(s, k + 2, Len(s))>>

\* str.partition('==')
partition(s) ==
    LET k == find_eqeq(s, 1) IN
    IF k = 0 THEN <<s, <<>>, <<>>>>
    ELSE <<SubSeq(s, 1, k - 1), <<"=", "=">>, SubSeq(s, k + 2, Len(s))>>

RECURSIVE find_newline(_, _)
find_newline(s, i) ==
    IF i > Len(s) THEN 0
    ELSE IF s[i] = "\n" THEN i
    ELSE find_newline(s, i + 1)

\* str.splitlines(False)
RECURSIVE splitlines(_)
splitlines(t) ==
    IF t = <<>> THEN <<>>
    ELSE LET k == find_newline(t, 1) IN
         IF k = 0 THEN <<t>>
         ELSE <<SubSeq(t, 1, k - 1)>> \o splitlines(SubSeq(t, k + 1, Len(t)))

\* sep.join(lines)
RECURSIVE join(_, _)
join(sep, lines) ==
    IF lines = <<>> THEN <<>>
    ELSE IF Len(lines) = 1 THEN lines[1]
    ELSE lines[1] \o sep \o join(sep, Tail(lines))

\* ''.join(r.split()): r without its whitespace
RECURSIVE remove_whitespace(_)
remove_whitespace(s) ==
    IF s = <<>> THEN <<>>
    ELSE IF Head(s) \in Whitespace THEN remove_whitespace(Tail(s))
    ELSE <<Head(s)>> \o remove_whitespace(Tail(s))

\* a < b for str: code point by code point, a proper prefix is smaller
RECURSIVE str_less(_, _)
str_less(a, b) ==
    IF b = <<>> THEN FALSE
    ELSE IF a = <<>> THEN TRUE
    ELSE IF Ord(Head(a)) < Ord(Head(b)) THEN TRUE
    ELSE IF Ord(Head(a)) > Ord(Head(b)) THEN FALSE
    ELSE str_less(Tail(a), Tail(b))

\* (n1, v1) < (n2, v2) for tuples of str
tuple_less(p, q) ==
    IF p[1] # q[1] THEN str_less(p[1], q[1]) ELSE str_less(p[2], q[2])

RECURSIVE insert_str(_, _)
insert_str(x, s) ==
    IF s = <<>> THEN <<x>>
    ELSE IF str_less(x, Head(s)) THEN <<x>> \o s
    ELSE <<Head(s)>> \o insert_str(x, Tail(s))

\* sorted(s) for a list of str
RECURSIVE sorted_strs(_)
sorted_strs(s) ==
    IF s = <<>> THEN <<>>
    ELSE insert_str(s[Len(s)], sorted_strs(SubSeq(s, 1, Len(s) - 1)))

RECURSIVE insert_item(_, _)
insert_item(x, s) ==
    IF s = <<>> THEN <<x>>
    ELSE IF tuple_less(x, Head(s)) THEN <<x>> \o s
    ELSE <<Head(s)>> \o insert_item(x, Tail(s))

\* what leaving the items in insertion order would give
unsorted_items(s) == s

\* sorted(d.items()) for a list of (str, str) tuples
RECURSIVE sorted_items(_)
sorted_items(s) ==
    IF s = <<>> THEN <<>>
    ELSE insert_item(s[Len(s)], sorted_items(SubSeq(s, 1, Len(s) - 1)))

Range(s) == {s[i] : i \in 1..Len(s)}

Seqs(S, n) == UNION {[1..k -> S] : k \in 0..n}

\* each line followed by a newline, as a text file or a subprocess prints it
RECURSIVE unlines(_)
unlines(lines) ==
    IF lines = <<>> THEN <<>>
    ELSE Head(lines) \o <<"\n">> \o unlines(Tail(lines))

\* --------------------------------------------------------------- the state
VARIABLES
    files,          \* requirement manifests: path -> [exists, text]
    pip,            \* what the freeze subprocess does: [ok, out]
    cfgfs,          \* metadata files: path -> [exists, content, lines]
    op,             \* the function that is running or ran last
    pc,             \* its position: a step name, "done" or "raised"
    args,           \* its arguments
    req_lines,      \* load_requirements: the lines read
    pairs,          \* the (name, version) tuples the parser yielded
    main_names,     \* lock_dev_requirements: the baseline names
    all_reqs,       \* lock_dev_requirements: the snapshot lines
    dev_only_reqs,  \* lock_dev_requirements: the dict, as a list of items
    new_reqs,       \* lock_dev_requirements: the text to write
    snapshot,       \* lock_requirements: the text get_installed_reqs returned
    config,         \* get_requirements_from_setup_cfg: the ConfigParser
    requirements,   \* get_requirements_from_setup_cfg: the mapping returned
    exc,            \* the exception that left the function, or NoExc
    log,            \* the file and subprocess calls of the running function
    calls           \* the functions called so far

vars == <<files, pip, cfgfs, op, pc, args, req_lines, pairs, main_names,
          all_reqs, dev_only_reqs, new_reqs, snapshot, config, requirements,
          exc, log, calls>>

MainPath == "requirements.txt"
DevPath == "requirements-dev.txt"
Paths == {MainPath, DevPath}
SetupCfg == "setup.cfg"
OtherCfg == "other.cfg"
CfgPaths == {SetupCfg, OtherCfg}

\* a ConfigParser without sections, a mapping without keys
EmptyConfig == [k \in {} |-> <<>>]
NoRequirements == [k \in {} |-> <<>>]

\* A metadata file: content is what ConfigParser reads from it, a function
\* from <<section, option>> to the text of the option; lines is what
\* iterating the open file gives, each line as the file name it spells.
NoCfgFile == [exists |-> FALSE, content |-> EmptyConfig, lines |-> <<>>]
CfgFile(c, ls) == [exists |-> TRUE, content |-> c, lines |-> ls]

NoFile == [exists |-> FALSE, text |-> <<>>]
File(t) == [exists |-> TRUE, text |-> t]

FileNotFoundError == [type |-> "FileNotFoundError", arg |-> <<>>]
CalledProcessError == [type |-> "CalledProcessError", arg |-> <<>>]
NotPinned(req_line) == [type |-> "Exception: Requirement version is not pinned", arg |-> req_line]

\* ------------------------------------------------- get_required_name_versions
\* a continue statement that tests for the empty line only
skipped_blank_only(req_line) == req_line = <<>>

\* the condition of the continue statement
skipped(req_line) == req_line = <<>> \/ startswith(req_line, "#")

\* the tuple yielded for a line that is neither skipped nor refused
name_version(req_line) ==
    LET parts == partition(req_line) IN
    <<strip(lower(parts[1])), strip(lower(parts[3]))>>

\* The generator, consumed to its end: out is what it yielded, exc what it
\* raised (after the tuples of the lines before the offending one).
RECURSIVE get_required_name_versions(_, _)
get_required_name_versions(requirement_lines, force_pinned) ==
    IF requirement_lines = <<>> THEN [out |-> <<>>, exc |-> NoExc]
    ELSE LET req_line == strip(Head(requirement_lines)) IN
         IF skipped(req_line)
         THEN get_required_name_versions(Tail(requirement_lines), force_pinned)
         ELSE IF ~contains_eqeq(req_line) /\ force_pinned
         THEN [out |-> <<>>, exc |-> NotPinned(req_line)]
         ELSE LET rest == get_required_name_versions(Tail(requirement_lines), force_pinned) IN
              [out |-> <<name_version(req_line)>> \o rest.out, exc |-> rest.exc]

\* a caller consumes get_required_name_versions(requirement_lines, force_pinned)
GetRequiredNameVersions ==
    /\ op = "get_required_name_versions" /\ pc = "call"
    /\ LET r == get_required_name_versions(args.requirement_lines, args.force_pinned) IN
        /\ pairs' = r.out
        /\ exc' = r.exc
        /\ pc' = IF r.exc = NoExc THEN "done" ELSE "raised"
    /\ UNCHANGED <<files, pip, cfgfs, op, args, req_lines, main_names, all_reqs,
                   dev_only_reqs, new_reqs, snapshot, config, requirements,
                   log, calls>>

\* lines written one character at a time
AllLines == Seqs(Chars, MaxLineLen)

L_a1 == <<"a", "=", "=", "1">>
L_A2 == <<"A", " ", "=", "=", "2">>
L_b1 == <<"b", "=", "=", "1">>
L_aeq == <<"a", "=", " ", "=", "=", "1">>
L_comment == <<" ", "#", "a">>
L_blank == <<" ">>
L_bare == <<"B">>

ManifestLines == {L_a1, L_A2, L_b1, L_aeq, L_comment, L_bare}

\* the lines a baseline manifest is made of
MainLines == {L_A2, L_b1, L_comment, L_bare}


InitRest ==
    /\ files = [p \in Paths |-> NoFile]
    /\ pip = [ok |-> FALSE, out |-> <<>>]
    /\ cfgfs = [p \in CfgPaths |-> NoCfgFile]
    /\ req_lines = <<>> /\ pairs = <<>> /\ main_names = {} /\ all_reqs = <<>>
    /\ dev_only_reqs = <<>> /\ new_reqs = <<>> /\ snapshot = <<>>
    /\ config = EmptyConfig /\ requirements = NoRequirements
    /\ exc = NoExc /\ log = <<>>

InitParse ==
    /\ InitRest
    /\ op = "get_required_name_versions" /\ pc = "call"
    /\ calls = <<"get_required_name_versions">>
    /\ \E ls \in {<<l>> : l \in AllLines} \cup Seqs(ManifestLines \cup {L_blank}, MaxSeqLines),
          fp \in BOOLEAN :
          args = [requirement_lines |-> ls, force_pinned |-> fp]

NextParse == GetRequiredNameVersions

SpecParse == InitParse /\ [][NextParse]_vars

\* ------------------------------------------------------------ the caller
\* A release script calls one function; after a lock that completed it may
\* read the manifest back with load_requirements.
CanCall == pc = "idle"

CanReadBack ==
    pc = "done" /\ op \in {"lock_requirements", "lock_dev_requirements"}

\* ------------------------------------------------------- get_installed_reqs
\* subprocess.check_output(['pip', 'freeze', ...]): the text or the failure
get_installed_reqs ==
    IF pip.ok THEN [out |-> pip.out, exc |-> NoExc]
    ELSE [out |-> <<>>, exc |-> CalledProcessError]

Freeze == <<"subprocess", "pip freeze">>

\* -------------------------------------------------------- load_requirements
CallLoadRequirements ==
    /\ CanCall \/ CanReadBack
    /\ \E f \in Paths, fp \in BOOLEAN :
          args' = [requirements_file |-> f, force_pinned |-> fp]
    /\ op' = "load_requirements" /\ pc' = "read"
    /\ calls' = Append(calls, "load_requirements")
    /\ req_lines' = <<>> /\ pairs' = <<>> /\ exc' = NoExc /\ log' = <<>>
    /\ UNCHANGED <<files, pip, cfgfs, main_names, all_reqs, dev_only_reqs,
                   new_reqs, snapshot, config, requirements>>

\* with open(requirements_file) as reqs: req_lines = reqs.read().splitlines(False)
LoadRead ==
    /\ op = "load_requirements" /\ pc = "read"
    /\ LET f == args.requirements_file IN
        IF files[f].exists
        THEN /\ req_lines' = splitlines(files[f].text)
             /\ log' = Append(log, <<"read", f>>)
             /\ pc' = "parse" /\ exc' = exc
        ELSE /\ exc' = FileNotFoundError /\ pc' = "raised"
             /\ UNCHANGED <<req_lines, log>>
    /\ UNCHANGED <<files, pip, cfgfs, op, args, pairs, main_names, all_reqs,
                   dev_only_reqs, new_reqs, snapshot, config, requirements, calls>>

\* return get_required_name_versions(req_lines, force_pinned), consumed by
\* the caller
LoadParse ==
    /\ op = "load_requirements" /\ pc = "parse"
    /\ LET r == get_required_name_versions(req_lines, args.force_pinned) IN
        /\ pairs' = r.out
        /\ exc' = r.exc
        /\ pc' = IF r.exc = NoExc THEN "done" ELSE "raised"
    /\ UNCHANGED <<files, pip, cfgfs, op, args, req_lines, main_names, all_reqs,
                   dev_only_reqs, new_reqs, snapshot, config, requirements,
                   log, calls>>

\* -------------------------------------------------------- lock_requirements
CallLockRequirements ==
    /\ CanCall
    /\ args' = [requirements_file |-> MainPath]
    /\ op' = "lock_requirements" /\ pc' = "open"
    /\ calls' = Append(calls, "lock_requirements")
    /\ snapshot' = <<>> /\ exc' = NoExc /\ log' = <<>>
    /\ UNCHANGED <<files, pip, cfgfs, req_lines, pairs, main_names, all_reqs,
                   dev_only_reqs, new_reqs, config, requirements>>

\* an open that does not truncate
LockOpenKeeping ==
    /\ op = "lock_requirements" /\ pc = "open"
    /\ files' = [files EXCEPT ![args.requirements_file] =
                    IF @.exists THEN @ ELSE File(<<>>)]
    /\ log' = Append(log, <<"open_w", args.requirements_file>>)
    /\ pc' = "freeze"
    /\ UNCHANGED <<pip, cfgfs, op, args, req_lines, pairs, main_names, all_reqs,
                   dev_only_reqs, new_reqs, snapshot, config, requirements,
                   exc, calls>>

\* with open(requirements_file, 'w') as fo: the file is created or truncated
LockOpen ==
    /\ op = "lock_requirements" /\ pc = "open"
    /\ files' = [files EXCEPT ![args.requirements_file] = File(<<>>)]
    /\ log' = Append(log, <<"open_w", args.requirements_file>>)
    /\ pc' = "freeze"
    /\ UNCHANGED <<pip, cfgfs, op, args, req_lines, pairs, main_names, all_reqs,
                   dev_only_reqs, new_reqs, snapshot, config, requirements,
                   exc, calls>>

\* the argument of fo.write is evaluated: get_installed_reqs()
LockFreeze ==
    /\ op = "lock_requirements" /\ pc = "freeze"
    /\ log' = Append(log, Freeze)
    /\ LET r == get_installed_reqs IN
        /\ snapshot' = r.out
        /\ exc' = r.exc
        /\ pc' = IF r.exc = NoExc THEN "write" ELSE "raised"
    /\ UNCHANGED <<files, pip, cfgfs, op, args, req_lines, pairs, main_names,
                   all_reqs, dev_only_reqs, new_reqs, config, requirements, calls>>

\* fo.write(...) and the end of the with block
LockWrite ==
    /\ op = "lock_requirements" /\ pc = "write"
    /\ files' = [files EXCEPT ![args.requirements_file] = File(snapshot)]
    /\ log' = Append(log, <<"write", args.requirements_file>>)
    /\ pc' = "done"
    /\ UNCHANGED <<pip, cfgfs, op, args, req_lines, pairs, main_names, all_reqs,
                   dev_only_reqs, new_reqs, snapshot, config, requirements,
                   exc, calls>>

\* ---------------------------------------------------- lock_dev_requirements
\* d[n] = v on a dict kept as the list of its items in insertion order
dict_set(d, n, v) ==
    IF \E i \in 1..Len(d) : d[i][1] = n
    THEN [i \in 1..Len(d) |-> IF d[i][1] = n THEN <<n, v>> ELSE d[i]]
    ELSE Append(d, <<n, v>>)

\* {n: v for n, v in items}
RECURSIVE dict_of(_)
dict_of(items) ==
    IF items = <<>> THEN <<>>
    ELSE LET d == dict_of(SubSeq(items, 1, Len(items) - 1))
             last == items[Len(items)] IN
         dict_set(d, last[1], last[2])

RECURSIVE filter_names(_, _)
filter_names(items, names) ==
    IF items = <<>> THEN <<>>
    ELSE IF Head(items)[1] \notin names
    THEN <<Head(items)>> \o filter_names(Tail(items), names)
    ELSE filter_names(Tail(items), names)

\* a comprehension without its condition
select_all(items, names) == dict_of(items)

\* {n: v for n, v in all_reqs if n not in main_names}
select_dev_only(items, names) == dict_of(filter_names(items, names))

\* f'{n}=={v}'
render(item) == item[1] \o <<"=", "=">> \o item[2]

\* '\n'.join(f'{n}=={v}' for n, v in sorted(dev_only_reqs.items()))
render_all(d) ==
    LET items == sorted_items(d) IN
    join(<<"\n">>, [i \in 1..Len(items) |-> render(items[i])])

CallLockDevRequirements ==
    /\ CanCall
    /\ args' = [dev_requirements_file |-> DevPath, main_requirements_file |-> MainPath]
    /\ op' = "lock_dev_requirements" /\ pc' = "load_main"
    /\ calls' = Append(calls, "lock_dev_requirements")
    /\ main_names' = {} /\ all_reqs' = <<>> /\ dev_only_reqs' = <<>>
    /\ new_reqs' = <<>> /\ exc' = NoExc /\ log' = <<>>
    /\ UNCHANGED <<files, pip, cfgfs, req_lines, pairs, snapshot, config,
                   requirements>>

\* main_names = {n for n, _v in load_requirements(main_requirements_file)}
LockDevLoadMain ==
    /\ op = "lock_dev_requirements" /\ pc = "load_main"
    /\ LET f == args.main_requirements_file IN
        IF files[f].exists
        THEN LET r == get_required_name_versions(splitlines(files[f].text), TRUE) IN
             /\ log' = Append(log, <<"read", f>>)
             /\ exc' = r.exc
             /\ IF r.exc = NoExc
                THEN main_names' = {r.out[i][1] : i \in 1..Len(r.out)} /\ pc' = "freeze"
                ELSE main_names' = main_names /\ pc' = "raised"
        ELSE /\ exc' = FileNotFoundError /\ pc' = "raised"
             /\ UNCHANGED <<main_names, log>>
    /\ UNCHANGED <<files, pip, cfgfs, op, args, req_lines, pairs, all_reqs,
                   dev_only_reqs, new_reqs, snapshot, config, requirements, calls>>

\* a freeze made inside a with block that already opened the dev manifest
LockDevFreezeOpened ==
    /\ op = "lock_dev_requirements" /\ pc = "freeze"
    /\ files' = [files EXCEPT ![args.dev_requirements_file] = File(<<>>)]
    /\ log' = log \o << <<"open_w", args.dev_requirements_file>>, Freeze >>
    /\ LET r == get_installed_reqs IN
        /\ exc' = r.exc
        /\ IF r.exc = NoExc
           THEN all_reqs' = splitlines(r.out) /\ pc' = "select"
           ELSE all_reqs' = all_reqs /\ pc' = "raised"
    /\ UNCHANGED <<pip, cfgfs, op, args, req_lines, pairs, main_names,
                   dev_only_reqs, new_reqs, snapshot, config, requirements, calls>>

\* all_reqs = get_installed_reqs().splitlines(False)
LockDevFreeze ==
    /\ op = "lock_dev_requirements" /\ pc = "freeze"
    /\ log' = Append(log, Freeze)
    /\ LET r == get_installed_reqs IN
        /\ exc' = r.exc
        /\ IF r.exc = NoExc
           THEN all_reqs' = splitlines(r.out) /\ pc' = "select"
           ELSE all_reqs' = all_reqs /\ pc' = "raised"
    /\ UNCHANGED <<files, pip, cfgfs, op, args, req_lines, pairs, main_names,
                   dev_only_reqs, new_reqs, snapshot, config, requirements, calls>>

\* all_reqs = get_required_name_versions(all_reqs); dev_only_reqs = {...};
\* new_reqs = '\n'.join(...)
LockDevSelect ==
    /\ op = "lock_dev_requirements" /\ pc = "select"
    /\ LET r == get_required_name_versions(all_reqs, TRUE) IN
        /\ exc' = r.exc
        /\ IF r.exc = NoExc
           THEN /\ dev_only_reqs' = select_dev_only(r.out, main_names)
                /\ new_reqs' = render_all(dev_only_reqs')
                /\ pc' = "write"
           ELSE /\ UNCHANGED <<dev_only_reqs, new_reqs>>
                /\ pc' = "raised"
    /\ UNCHANGED <<files, pip, cfgfs, op, args, req_lines, pairs, main_names,
                   all_reqs, snapshot, config, requirements, log, calls>>

\* with open(dev_requirements_file, 'w') as fo: fo.write(new_reqs)
LockDevWrite ==
    /\ op = "lock_dev_requirements" /\ pc = "write"
    /\ files' = [files EXCEPT ![args.dev_requirements_file] = File(new_reqs)]
    /\ log' = log \o << <<"open_w", args.dev_requirements_file>>,
                         <<"write", args.dev_requirements_file>> >>
    /\ pc' = "done"
    /\ UNCHANGED <<pip, cfgfs, op, args, req_lines, pairs, main_names, all_reqs,
                   dev_only_reqs, new_reqs, snapshot, config, requirements,
                   exc, calls>>

\* ------------------------------------------------- the manifest operations
OldDev == unlines(<<L_a1>>)

Init ==
    /\ \E m \in Seqs(MainLines, MaxMainLines), present \in BOOLEAN, old \in BOOLEAN :
          files = [p \in Paths |->
                     IF p = MainPath
                     THEN (IF present THEN File(unlines(m)) ELSE NoFile)
                     ELSE (IF old THEN File(OldDev) ELSE NoFile)]
    /\ \E s \in Seqs(ManifestLines, MaxSnapLines), ok \in BOOLEAN :
          pip = [ok |-> ok, out |-> IF ok THEN unlines(s) ELSE <<>>]
    /\ cfgfs = [p \in CfgPaths |-> NoCfgFile]
    /\ op = "none" /\ pc = "idle" /\ args = <<>>
    /\ req_lines = <<>> /\ pairs = <<>> /\ main_names = {} /\ all_reqs = <<>>
    /\ dev_only_reqs = <<>> /\ new_reqs = <<>> /\ snapshot = <<>>
    /\ config = EmptyConfig /\ requirements = NoRequirements
    /\ exc = NoExc /\ log = <<>> /\ calls = <<>>

Next ==
    \/ CallLoadRequirements \/ LoadRead \/ LoadParse
    \/ CallLockRequirements \/ LockOpen \/ LockFreeze \/ LockWrite
    \/ CallLockDevRequirements \/ LockDevLoadMain \/ LockDevFreeze
    \/ LockDevSelect \/ LockDevWrite

Spec == Init /\ [][Next]_vars

\* ------------------------------------------ get_requirements_from_setup_cfg
\* ConfigParser.read(filenames): each name that opens is parsed into the
\* parser, a later file overriding an earlier one; a name that does not open
\* is passed over in silence
RECURSIVE config_read(_, _)
config_read(cfg, filenames) ==
    IF filenames = <<>> THEN cfg
    ELSE LET fn == Head(filenames) IN
         IF fn \in CfgPaths /\ cfgfs[fn].exists
         THEN config_read(cfgfs[fn].content @@ cfg, Tail(filenames))
         ELSE config_read(cfg, Tail(filenames))

\* config.get(section, option, fallback=fallback)
config_get(cfg, section, option, fallback) ==
    IF <<section, option>> \in DOMAIN cfg THEN cfg[<<section, option>>] ELSE fallback

NonEmpty(c) == c # <<>>
NotBlank(r) == r # <<>> /\ strip(r) # <<>>

\* parse_requires(requires)
parse_requires(requires) ==
    LET lines == SelectSeq(splitlines(requires), NonEmpty) IN
    IF lines = <<>> THEN <<>>
    ELSE LET kept == SelectSeq(lines, NotBlank) IN
         sorted_strs([i \in 1..Len(kept) |-> remove_whitespace(kept[i])])

\* The keys of the mapping returned: <<"install_requires">>,
\* <<"setup_requires">> and, for f'extras_require:{extra}', <<"extras_require", extra>>.
extract_requirements(cfg) ==
    LET install_requires == config_get(cfg, "options", "install_requires", <<>>)
        setup_requires == config_get(cfg, "options", "setup_requires", <<>>)
        extras_require == config_get(cfg, "options", "extras_require", <<>>)
        extras == {extras_require[i] : i \in 1..Len(extras_require)}
    IN  [k \in {<<"extras_require", extra>> : extra \in extras} |->
            parse_requires(config_get(cfg, "options.extras_require", LowerChar(k[2]), <<>>))]
        @@ (<<"setup_requires">> :> parse_requires(setup_requires))
        @@ (<<"install_requires">> :> parse_requires(install_requires))

\* config = configparser.ConfigParser(); with open(setup_cfg) as cfg: config.read(cfg)
CfgRead ==
    /\ op = "get_requirements_from_setup_cfg" /\ pc = "read"
    /\ LET f == args.setup_cfg IN
        IF cfgfs[f].exists
        THEN /\ config' = config_read(EmptyConfig, cfgfs[f].lines)
             /\ log' = Append(log, <<"read", f>>)
             /\ pc' = "extract" /\ exc' = exc
        ELSE /\ exc' = FileNotFoundError /\ pc' = "raised"
             /\ UNCHANGED <<config, log>>
    /\ UNCHANGED <<files, pip, cfgfs, op, args, req_lines, pairs, main_names,
                   all_reqs, dev_only_reqs, new_reqs, snapshot, requirements, calls>>

\* requirements = {} ... return requirements
CfgExtract ==
    /\ op = "get_requirements_from_setup_cfg" /\ pc = "extract"
    /\ requirements' = extract_requirements(config)
    /\ pc' = "done"
    /\ UNCHANGED <<files, pip, cfgfs, op, args, req_lines, pairs, main_names,
                   all_reqs, dev_only_reqs, new_reqs, snapshot, config, exc,
                   log, calls>>

R_b_ge1 == <<"b", " ", ">", "=", "1">>
R_a_eq2 == <<"a", "=", "=", "2">>
R_spaces == <<" ", " ">>
R_B == <<"B">>
CfgLines == {R_b_ge1, R_a_eq2, R_spaces, R_B}

\* the texts of a *_requires option
RequiresTexts == {join(<<"\n">>, ls) : ls \in Seqs(CfgLines, MaxCfgLines)}

Install == <<"options", "install_requires">>
Setup == <<"options", "setup_requires">>
Extras == <<"options", "extras_require">>
ExtraT == <<"options.extras_require", "t">>

\* the contents of a metadata file: every subset of the four options
Contents ==
    UNION {[D -> RequiresTexts \cup {<<"t", "T">>}] : D \in SUBSET {Install, Setup, Extras, ExtraT}}

CfgContents ==
    {c \in Contents :
        /\ \A k \in DOMAIN c : (k = Extras) <=> (c[k] = <<"t", "T">>)
        /\ Setup \in DOMAIN c => c[Setup] \in {R_B, R_b_ge1 \o <<"\n">> \o R_a_eq2}
        /\ ExtraT \in DOMAIN c => c[ExtraT] = R_b_ge1}

OtherContent == (Install :> R_B) @@ (Extras :> <<"t">>) @@ (ExtraT :> R_a_eq2)

InitCfg ==
    /\ files = [p \in Paths |-> NoFile]
    /\ pip = [ok |-> FALSE, out |-> <<>>]
    /\ \E c \in CfgContents, present \in BOOLEAN, other \in BOOLEAN,
          ls \in {<<"[options]">>, <<"[options]", OtherCfg>>} :
          cfgfs = [p \in CfgPaths |->
                     IF p = SetupCfg
                     THEN (IF present THEN CfgFile(c, ls) ELSE NoCfgFile)
                     ELSE (IF other THEN CfgFile(OtherContent, <<>>) ELSE NoCfgFile)]
    /\ op = "get_requirements_from_setup_cfg" /\ pc = "read"
    /\ args = [setup_cfg |-> SetupCfg]
    /\ calls = <<"get_requirements_from_setup_cfg">>
    /\ req_lines = <<>> /\ pairs = <<>> /\ main_names = {} /\ all_reqs = <<>>
    /\ dev_only_reqs = <<>> /\ new_reqs = <<>> /\ snapshot = <<>>
    /\ config = EmptyConfig /\ requirements = NoRequirements
    /\ exc = NoExc /\ log = <<>>

NextCfg == CfgRead \/ CfgExtract

SpecCfg == InitCfg /\ [][NextCfg]_vars

\* ------------------------------------------------ notions the claims use
HasSep(t) == \E k \in 1..(Len(t) - 1) : t[k] = "=" /\ t[k + 1] = "="
IsBlank(l) == \A i \in 1..Len(l) : l[i] \in Whitespace
IsComment(l) == \E i \in 1..Len(l) :
    l[i] = "#" /\ \A j \in 1..(i - 1) : l[j] \in Whitespace
IsRequirement(l) == ~IsBlank(l) /\ ~IsComment(l)

\* ------------------------------------------- claims on the manifest writers
RequirementLines(text) == SelectSeq(splitlines(text), IsRequirement)
AllPinned(text) ==
    \A i \in 1..Len(RequirementLines(text)) : HasSep(RequirementLines(text)[i])
PairsOf(text) ==
    [i \in 1..Len(RequirementLines(text)) |->
        name_version(strip(RequirementLines(text)[i]))]
NamesOf(text) == {PairsOf(text)[i][1] : i \in 1..Len(PairsOf(text))}
DevNames == NamesOf(pip.out) \ NamesOf(files[MainPath].text)
LockDevDone == op = "lock_dev_requirements" /\ pc = "done"
Written == splitlines(files[DevPath].text)

\* C1: after lock_dev_requirements the names written to the dev manifest are
\* exactly the names of the snapshot that are not names of the baseline.
C1_DevOnlyNames ==
    LockDevDone =>
        /\ {dev_only_reqs[i][1] : i \in 1..Len(dev_only_reqs)} = DevNames
        /\ Len(Written) = Len(dev_only_reqs)
        /\ \A i \in 1..Len(dev_only_reqs) :
              \E j \in 1..Len(Written) : Written[j] = render(dev_only_reqs[i])

\* the baseline names a package the snapshot has at another version, and
\* the snapshot has a package the baseline does not name
C1_Witness ==
    /\ LockDevDone
    /\ main_names = {<<"a">>}
    /\ <<<<"a">>, <<"1">>>> \in Range(PairsOf(pip.out))
    /\ Written = <<L_b1>>

\* the version of the last snapshot line that has the name n
LastVersion(n) ==
    LET ps == PairsOf(pip.out)
        k == CHOOSE i \in 1..Len(ps) :
                 ps[i][1] = n /\ \A j \in (i + 1)..Len(ps) : ps[j][1] # n
    IN  ps[k][2]

\* C2: the text written is the newline-joined list of name==version lines in
\* strictly ascending order of name, one line per name, with the version of
\* the last snapshot line of that name.
C2_SortedLastWins ==
    LockDevDone =>
        /\ files[DevPath].text = join(<<"\n">>, Written)
        /\ Len(Written) = Cardinality(DevNames)
        /\ \E names \in [1..Len(Written) -> DevNames] :
              /\ \A i \in 1..(Len(Written) - 1) : str_less(names[i], names[i + 1])
              /\ \A i \in 1..Len(Written) :
                    Written[i] = names[i] \o <<"=", "=">> \o LastVersion(names[i])

\* the snapshot lists a twice with two versions, after a name that sorts later
C2_Witness ==
    /\ LockDevDone
    /\ all_reqs = <<L_b1, L_a1, L_A2>>
    /\ Written = << <<"a", "=", "=", "2">>, L_b1 >>

ReadBack(lock, f) ==
    /\ calls = <<lock, "load_requirements">>
    /\ op = "load_requirements" /\ pc \in {"done", "raised"}
    /\ args.requirements_file = f /\ args.force_pinned

\* C6: (a) the manifest written by lock_requirements reads back as the pairs
\* of the snapshot, and (b) the manifest written by lock_dev_requirements
\* reads back, without raising, as the pairs that were selected for writing.
C6_RoundTrip ==
    /\ (ReadBack("lock_requirements", MainPath) /\ AllPinned(pip.out)) =>
           pc = "done" /\ Range(pairs) = Range(PairsOf(pip.out))
    /\ ReadBack("lock_dev_requirements", DevPath) =>
           pc = "done" /\ Range(pairs) = Range(dev_only_reqs)

\* C9: lock_dev_requirements touches the dev manifest only in its last step,
\* after the baseline was read and parsed, the subprocess returned and the
\* snapshot was parsed, in that order; a failure before that leaves the
\* manifests as they were, and a bad baseline means no subprocess call.
C9_WriteLast ==
    [][(op = "lock_dev_requirements" /\ op' = op) =>
         /\ (files' # files) =>
               /\ pc = "write" /\ pc' = "done" /\ exc = NoExc
               /\ log = << <<"read", MainPath>>, Freeze >>
               /\ main_names = NamesOf(files[MainPath].text)
               /\ AllPinned(pip.out)
               /\ files'[MainPath] = files[MainPath]
         /\ (pc' = "raised") =>
               /\ files' = files /\ exc' # NoExc
               /\ \A i \in 1..Len(log') : log'[i][1] \notin {"open_w", "write"}
               /\ (~files[MainPath].exists \/ ~AllPinned(files[MainPath].text)) =>
                     Freeze \notin Range(log')
      ]_vars

\* the subprocess fails, or prints an unpinned line, while a dev manifest exists
C9_Witness ==
    /\ op = "lock_dev_requirements" /\ pc = "raised"
    /\ Freeze \in Range(log)
    /\ files[DevPath] = File(OldDev)

\* C10: lock_requirements truncates the manifest before it calls the
\* subprocess: on success the manifest is the snapshot text, on a failure of
\* the subprocess it is left empty.
C10_TruncateFirst ==
    op = "lock_requirements" =>
        /\ pc = "freeze" =>
              files[MainPath] = File(<<>>) /\ log = << <<"open_w", MainPath>> >>
        /\ pc = "done" =>
              /\ files[MainPath] = File(pip.out) /\ pip.ok
              /\ log = << <<"open_w", MainPath>>, Freeze, <<"write", MainPath>> >>
        /\ pc = "raised" =>
              /\ files[MainPath] = File(<<>>) /\ exc = CalledProcessError
              /\ log = << <<"open_w", MainPath>>, Freeze >>

\* the subprocess failed after the manifest was opened
C10_Witness ==
    /\ op = "lock_requirements" /\ pc = "raised" /\ ~pip.ok
    /\ files[MainPath] = File(<<>>)

\* ---------------------------------------------------- claims on the parser
ParserRan == op = "get_required_name_versions" /\ pc # "call"
OneLine == Len(args.requirement_lines) = 1
TheLine == strip(args.requirement_lines[1])

\* C3: a requirement line without "==" raises the policy violation naming the
\* line when pinning is required, and yields (name, None) when it is not.
C3_UnpinnedLine ==
    (ParserRan /\ OneLine /\ IsRequirement(TheLine) /\ ~HasSep(TheLine)) =>
        IF args.force_pinned
        THEN pc = "raised" /\ exc = NotPinned(TheLine) /\ pairs = <<>>
        ELSE pc = "done" /\ exc = NoExc
             /\ pairs = <<<<lower(TheLine), NoneVal>>>>

\* C4: a requirement line with "==" yields exactly one tuple: the text before
\* the first "==" and all the text after it, lower-cased and stripped,
\* whatever force_pinned is.
C4_PinnedLine ==
    (ParserRan /\ OneLine /\ IsRequirement(TheLine) /\ HasSep(TheLine)) =>
        /\ pc = "done" /\ exc = NoExc /\ Len(pairs) = 1
        /\ \E k \in 1..(Len(TheLine) - 1) :
              /\ TheLine[k] = "=" /\ TheLine[k + 1] = "="
              /\ \A j \in 1..(k - 1) : ~(TheLine[j] = "=" /\ TheLine[j + 1] = "=")
              /\ pairs[1][1] = strip(lower(SubSeq(TheLine, 1, k - 1)))
              /\ pairs[1][2] = strip(lower(SubSeq(TheLine, k + 2, Len(TheLine))))

\* a pinned line with a second "==" in its version and a name to lower-case
C4_Witness ==
    /\ ParserRan /\ OneLine /\ pc = "done" /\ args.force_pinned
    /\ Len(pairs) = 1 /\ HasSep(pairs[1][2]) /\ pairs[1][1] = <<"a">>
    /\ TheLine[1] = "A"

\* C5: blank lines and comment lines yield nothing and never raise; when all
\* the other lines are pinned the output is one tuple per other line, in the
\* order of the lines.
C5_SkippedLines ==
    LET kept == SelectSeq(args.requirement_lines, IsRequirement) IN
    (ParserRan /\ \A i \in 1..Len(kept) : HasSep(kept[i])) =>
        /\ pc = "done" /\ exc = NoExc
        /\ Len(pairs) = Len(kept)
        /\ \A i \in 1..Len(kept) : pairs[i] = name_version(strip(kept[i]))

\* pinning required: a comment or blank line between two pinned lines
C5_Witness ==
    /\ ParserRan /\ pc = "done" /\ args.force_pinned
    /\ Len(args.requirement_lines) = 3 /\ Len(pairs) = 2
    /\ ~IsRequirement(args.requirement_lines[2])
    /\ pairs[1][1] = <<"b">> /\ pairs[2][1] = <<"a">>

\* ------------------------------------------------- claims on the extractor
CfgRan == op = "get_requirements_from_setup_cfg" /\ pc \in {"done", "raised"}
TheCfg == cfgfs[SetupCfg]

\* C7: the install_requires (setup_requires) text of the metadata file comes
\* back normalized under the key install_requires (setup_requires).
C7_RequiresNormalized ==
    (CfgRan /\ TheCfg.exists) =>
        /\ pc = "done"
        /\ Install \in DOMAIN TheCfg.content =>
              requirements[<<"install_requires">>] = parse_requires(TheCfg.content[Install])
        /\ Setup \in DOMAIN TheCfg.content =>
              requirements[<<"setup_requires">>] = parse_requires(TheCfg.content[Setup])

\* C8: a readable metadata file without install_requires, setup_requires and
\* extras_require gives a mapping in which the three keys hold empty lists.
C8_MissingDefaults ==
    (CfgRan /\ TheCfg.exists
       /\ DOMAIN TheCfg.content \cap {Install, Setup, Extras} = {}) =>
        /\ pc = "done"
        /\ requirements[<<"install_requires">>] = <<>>
        /\ requirements[<<"setup_requires">>] = <<>>
        /\ <<"extras_require">> \in DOMAIN requirements
        /\ requirements[<<"extras_require">>] = <<>>

====
